---- MODULE Spec2Model ----
(***************************************************************************)
(* Timer reconciliation and shared-state synchronisation of the SmartHome  *)
(* server (src/test-firebase.js, the watcher-driven server, and            *)
(* src/server.js, the direct-arm variant).                                 *)
(*                                                                         *)
(* Time is in milliseconds, durations of requests are in seconds, as in    *)
(* the source.  A store write is applied (or fails) at the call; what the  *)
(* code does after an await is a separate step.  Every write under         *)
(* smartHomeState/timer is notified to every subscribed process through a  *)
(* FIFO inbox of snapshots.                                                *)
(***************************************************************************)
EXTENDS Integers, Sequences, FiniteSets, Bags, TLC

VARIABLES
    now,          \* Date.now(), ms
    doc,          \* the document at smartHomeState
    inbox,        \* per process: snapshots of smartHomeState/timer not yet handled
    activeTimers, \* per process: { timerId: setTimeout ref }
    timeouts,     \* per process: the setTimeout callbacks scheduled or running
    subs,         \* the watcher-driven processes that run, subscribed to the store
    accepted,     \* history: the Timer Records persisted by scheduling requests
    execs,        \* history: the merge-writes issued, per process and record
    ops,          \* history: number of client requests handled
    failures,     \* history: number of store writes that failed
    restarts,     \* history: number of process restarts
    redelivered,  \* history: number of redundant notifications
    resp,         \* the last HTTP response sent
    lastWatch,    \* history: the expired or skipped snapshot the last step handled
    probe,        \* the request submitted to the scheduling routes, if one is fixed
    pending,      \* the handlers and boot routines suspended at an await
    esp,          \* per process: esp32Status, the presence of the hardware peer
    fw,           \* the firmware: its copy of the state, its animation state, its pins
    stream        \* the firmware's stream: whether it is open, the events not yet handled

vars == <<now, doc, inbox, activeTimers, timeouts, subs, accepted, execs,
          ops, failures, restarts, redelivered, resp, lastWatch, probe,
          pending, esp, fw, stream>>

(***************************************************************************)
(* Bounds of the model.                                                    *)
(***************************************************************************)
MaxNow == 3000
TickMs == 1000
MaxDuration == 2
MaxReqs == 2
MaxFailures == 1
MaxInbox == 2
MaxRestarts == 2
MaxJitter == 1
MaxRedeliver == 1
MaxPending == 1
MaxOps == 3
MaxQueue == 3

\* Watcher-driven servers (src/test-firebase.js) and direct-arm servers
\* (src/server.js), all on the same document.
Watchers == {"p1", "p2"}

Directs == {"d1"}

Procs == Watchers \cup Directs

(***************************************************************************)
(* Small helpers.                                                          *)
(***************************************************************************)
Range(s) == {s[i] : i \in DOMAIN s}

Max(a, b) == IF a >= b THEN a ELSE b

(***************************************************************************)
(* JSON values of a request body, tagged by their JavaScript type.         *)
(* A string that is read as a number is kept as its sequence of            *)
(* characters.                                                             *)
(***************************************************************************)
Undef == [t |-> "undefined"]
Null == [t |-> "null"]
Bool(b) == [t |-> "boolean", b |-> b]
Num(n) == [t |-> "number", n |-> n]
Str(s) == [t |-> "string", s |-> s]
Chars(cs) == [t |-> "string", cs |-> cs]
Arr(a) == [t |-> "array", a |-> a]
NaN == [nan |-> TRUE]
Fin(n) == [nan |-> FALSE, n |-> n]

Digits == <<"0", "1", "2", "3", "4", "5", "6", "7", "8", "9">>

IsDigit(c) == \E i \in DOMAIN Digits : Digits[i] = c

DigitVal(c) == (CHOOSE i \in DOMAIN Digits : Digits[i] = c) - 1

RECURSIVE DigitsVal(_)
DigitsVal(cs) ==
    IF cs = <<>> THEN 0
    ELSE 10 * DigitsVal(SubSeq(cs, 1, Len(cs) - 1)) + DigitVal(cs[Len(cs)])

(***************************************************************************)
(* JavaScript conversions used by the request validation.                  *)
(* Truthy: !v is false.  ToNumber: the numeric value used by <, > and *.   *)
(* The characters of the sampled strings are digits, "-", "." and          *)
(* letters other than x and e (no hexadecimal, exponent or white space).   *)
(***************************************************************************)
Truthy(v) ==
    CASE v.t = "undefined" -> FALSE
      [] v.t = "null" -> FALSE
      [] v.t = "boolean" -> v.b
      [] v.t = "number" -> v.n # 0
      [] v.t = "string" -> IF "cs" \in DOMAIN v THEN v.cs # <<>> ELSE v.s # ""
      [] OTHER -> TRUE

\* StringToNumber: "" is 0, an optionally signed run of digits is its value,
\* anything else is NaN.
StringToNumber(cs) ==
    LET neg == cs # <<>> /\ cs[1] = "-"
        body == IF neg THEN Tail(cs) ELSE cs
    IN  IF cs = <<>> THEN Fin(0)
        ELSE IF body # <<>> /\ \A i \in DOMAIN body : IsDigit(body[i])
             THEN Fin(IF neg THEN 0 - DigitsVal(body) ELSE DigitsVal(body))
             ELSE NaN

RECURSIVE ToNumber(_)
ToNumber(v) ==
    CASE v.t = "undefined" -> NaN
      [] v.t = "null" -> Fin(0)
      [] v.t = "boolean" -> Fin(IF v.b THEN 1 ELSE 0)
      [] v.t = "number" -> Fin(v.n)
      [] v.t = "string" ->
            IF "cs" \in DOMAIN v THEN StringToNumber(v.cs)
            ELSE IF v.s = "" THEN Fin(0) ELSE NaN
      [] v.t = "array" ->
            IF Len(v.a) = 0 THEN Fin(0)
            ELSE IF Len(v.a) > 1 THEN NaN
            ELSE IF v.a[1].t \in {"undefined", "null"} THEN Fin(0)
            ELSE IF v.a[1].t \in {"number", "string", "array"} THEN ToNumber(v.a[1])
            ELSE NaN
      [] OTHER -> NaN

\* v < k and v > k for a number k: false when v converts to NaN.
Lt(v, k) == LET n == ToNumber(v) IN ~n.nan /\ n.n < k

Gt(v, k) == LET n == ToNumber(v) IN ~n.nan /\ n.n > k

\* parseInt(string): the longest optionally signed prefix of digits, NaN if none.
RECURSIVE DigitPrefix(_)
DigitPrefix(cs) ==
    IF cs = <<>> \/ ~IsDigit(cs[1]) THEN <<>>
    ELSE <<cs[1]>> \o DigitPrefix(Tail(cs))

parseInt(cs) ==
    LET neg == cs # <<>> /\ cs[1] = "-"
        body == IF neg THEN Tail(cs) ELSE cs
        pre == DigitPrefix(body)
    IN  IF pre = <<>> THEN NaN
        ELSE Fin(IF neg THEN 0 - DigitsVal(pre) ELSE DigitsVal(pre))

\* String.prototype.toLowerCase on the sampled path parameters.
toLowerCase(s) ==
    CASE s = "LED1" -> "led1"
      [] s = "Bedroom" -> "bedroom"
      [] s = "TV" -> "tv"
      [] s = "ON" -> "on"
      [] s = "Off" -> "off"
      [] OTHER -> s

(***************************************************************************)
(* Devices.                                                                *)
(***************************************************************************)
KnownDevices == {"led1", "led2", "led3", "tv"}

DirectDevices == {"led1", "led2", "led3"}

Actions == {"on", "off"}

AliasNames == {"living-room", "livingroom", "lounge", "led1", "bedroom", "bed",
               "led2", "kitchen", "led3", "tv", "television"}

\* DEVICE_ALIASES[name]; "" stands for undefined.
DEVICE_ALIASES(name) ==
    CASE name \in {"living-room", "livingroom", "lounge", "led1"} -> "led1"
      [] name \in {"bedroom", "bed", "led2"} -> "led2"
      [] name \in {"kitchen", "led3"} -> "led3"
      [] name \in {"tv", "television"} -> "tv"
      [] OTHER -> ""

(***************************************************************************)
(* Validation of a scheduling request.  Each operator gives "ok" or the    *)
(* name of the first check that rejects, in the order of the code.         *)
(***************************************************************************)
CheckBody(body, names) ==
    LET devices == body.devices
        duration == body.duration
        action == body.action
    IN  IF ~Truthy(devices) \/ devices.t # "array" \/ Len(devices.a) = 0
            THEN "devices"
        ELSE IF ~Truthy(duration) \/ Lt(duration, 1) \/ Gt(duration, 86400)
            THEN "duration"
        ELSE IF action \notin {Str("on"), Str("off")}
            THEN "action"
        ELSE IF ~(\A i \in DOMAIN devices.a :
                    \E d \in names : devices.a[i] = Str(d))
            THEN "names"
        ELSE "ok"

\* POST /api/timer/start of the watcher-driven server.
ValidateStart(body) == CheckBody(body, KnownDevices)

\* POST /api/timer/start of the direct-arm variant.
ValidateStartDirect(body) == CheckBody(body, DirectDevices)

\* GET /do/timer/:device/:duration/:action; duration is parseInt of the parameter.
ValidateDoTimer(params) ==
    LET deviceKey == DEVICE_ALIASES(toLowerCase(params.device))
        duration == parseInt(params.duration)
        action == toLowerCase(params.action)
    IN  IF deviceKey = "" THEN "device"
        ELSE IF duration.nan \/ duration.n = 0 \/ duration.n < 1 \/ duration.n > 86400
            THEN "duration"
        ELSE IF action \notin Actions THEN "action"
        ELSE "ok"

\* GET /do/timer-all/:duration/:action.
ValidateDoTimerAll(params) ==
    LET duration == parseInt(params.duration)
        action == toLowerCase(params.action)
    IN  IF duration.nan \/ duration.n = 0 \/ duration.n < 1 \/ duration.n > 86400
            THEN "duration"
        ELSE IF action \notin Actions THEN "action"
        ELSE "ok"

(***************************************************************************)
(* The State Document and the Timer Record.                                *)
(***************************************************************************)
\* timer: null
NoTimer == [nil |-> TRUE]

\* The timer of the document the connectivity test creates: not active.
InactiveTimer == [active |-> FALSE, duration |-> 0, remainingTime |-> 0,
                  targetLeds |-> <<>>]

defaultState ==
    [led1 |-> FALSE, led2 |-> FALSE, led3 |-> FALSE, tv |-> FALSE,
     mode |-> "normal", kill |-> FALSE, timer |-> NoTimer]

\* `timer && timer.active` of the watcher and of the status query.
IsActive(timer) == "active" \in DOMAIN timer /\ timer.active

\* "timer_" + Date.now(): the id is identified with its millisecond.
TimerId(ms) == ms

\* Fault of the record: written without being active.
TimerRecordInactive(id, devices, duration, seconds, action, j1, j2) ==
    [id |-> id, devices |-> devices, duration |-> duration, action |-> action,
     startedAt |-> now + j1,
     endsAt |-> now + j1 + j2 + seconds * 1000,
     active |-> FALSE]

\* The record executeTimer and the /do/timer routes write; startedAt and endsAt
\* are two further readings of the clock, j1 and j2 ms after the previous one.
TimerRecord(id, devices, duration, seconds, action, j1, j2) ==
    [id |-> id, devices |-> devices, duration |-> duration, action |-> action,
     startedAt |-> now + j1,
     endsAt |-> now + j1 + j2 + seconds * 1000,
     active |-> TRUE]

\* Fault of the merge: a device output is inverted instead of set.
MergeFlip(d, updates) ==
    [k \in DOMAIN d \cup DOMAIN updates |->
        IF k \in DOMAIN updates
        THEN IF k \in KnownDevices /\ k \in DOMAIN d THEN ~d[k] ELSE updates[k]
        ELSE d[k]]

\* ref("smartHomeState").update(updates): shallow key-wise merge.
Merge(d, updates) ==
    [k \in DOMAIN d \cup DOMAIN updates |->
        IF k \in DOMAIN updates THEN updates[k] ELSE d[k]]

\* Fault of a firing: the record is not cleared.
TimerUpdatesKeepTimer(timer) ==
    [k \in Range(timer.devices) |-> timer.action = "on"]

\* The updates object of a firing: outputs per action, kill cleared on "on",
\* timer cleared.
TimerUpdates(timer) ==
    LET keys == Range(timer.devices)
                \cup (IF timer.action = "on" THEN {"kill"} ELSE {})
                \cup {"timer"}
    IN  [k \in keys |->
            IF k = "timer" THEN NoTimer
            ELSE IF k = "kill" /\ timer.action = "on" THEN FALSE
            ELSE timer.action = "on"]

(***************************************************************************)
(* The store: a write that touches smartHomeState/timer is notified to     *)
(* every subscribed process, the writer included.                          *)
(***************************************************************************)
\* A callback of a process is scheduled (pending) or runs, stopped at an await
\* (running); see the direct-arm server for its further stages.

\* A store write either succeeds or fails with StoreUnavailable.
Outcome(ok) ==
    /\ ok \/ failures < MaxFailures
    /\ failures' = IF ok THEN failures ELSE failures + 1

CanNotify == \A p \in subs : Len(inbox[p]) < MaxQueue

Notify(timer) ==
    inbox' = [p \in Procs |->
                IF p \in subs THEN Append(inbox[p], timer) ELSE inbox[p]]

(***************************************************************************)
(* The countdown table of a process.                                       *)
(***************************************************************************)
\* clearAllTimers: clearTimeout of every handle of the table (no effect on a
\* callback that already runs), and the table emptied.
ClearedTimeouts(p) ==
    {t \in timeouts[p] :
        t.st # "pending" \/ ~(\E e \in activeTimers[p] : e.h = t.h)}

\* The handle setTimeout returns: one no live callback of the process holds.
FreshHandle(ts) == CHOOSE h \in 1..(Cardinality(ts) + 1) :
                        \A t \in ts : t.h # h

\* Fault of the guard: no timer is ever taken as tracked.
TrackingNone(p, id) == FALSE

\* activeTimers[timer.id] of the watcher's guard.
Tracking(p, id) == \E e \in activeTimers[p] : e.id = id

\* Faults of the remaining-time computation: the deadline taken from startedAt,
\* and the full duration armed whatever the time of delivery.
RemainingFromStart(timer) == Max(0, timer.startedAt - now)

RemainingFullDuration(timer) == ToNumber(timer.duration).n * 1000

\* Math.max(0, timer.endsAt - Date.now()) of the watcher.
Remaining(timer) == Max(0, timer.endsAt - now)

\* History of a merge-write: who issued it, for which record, through the
\* expired snapshot or the countdown, and whether the store took it.
Record(p, timer, via, ok) ==
    execs (+) SetToBag({[p |-> p, timer |-> timer, via |-> via, ok |-> ok]})

NoWatch == [p |-> "none"]

\* n: how many times in a row the process has handled this expired snapshot.
Watched(p, timer) ==
    [p |-> p, timer |-> timer,
     n |-> IF lastWatch.p = p /\ lastWatch.timer = timer
           THEN lastWatch.n + 1 ELSE 1]

\* The snapshot the guard of the watcher skipped.
Skipped(p, timer) == [p |-> p, timer |-> timer, n |-> 0]

(***************************************************************************)
(* Inputs of the state machine.                                            *)
(***************************************************************************)
Body(devices, duration, action) ==
    [devices |-> devices, duration |-> duration, action |-> action]

Params(device, duration, action) ==
    [device |-> device, duration |-> duration, action |-> action]

\* Bodies of POST /api/timer/start: every well-formed one over two devices,
\* and two that validation rejects.
GoodBodies ==
    {Body(Arr(<<Str("led1")>>), Num(n), Str("off")) : n \in 1..MaxDuration}
    \cup {Body(Arr(<<Str("led2")>>), Num(1), Str("on"))}

StartBodies ==
    GoodBodies \cup {Body(Arr(<<Str("led1")>>), Num(0), Str("on"))}

\* Path parameters of GET /do/timer/:device/:duration/:action.
DoTimerParams ==
    {Params("Bedroom", <<"1">>, "ON"), Params("tv", <<"2">>, "off"),
     Params("garage", <<"1">>, "on")}

\* A handler that answers every request with the validation error.
ResponseAlwaysRejects(op, status, error) == [op |-> op, status |-> 400, error |-> error]

Response(op, status, error) == [op |-> op, status |-> status, error |-> error]

(***************************************************************************)
(* Presence of the hardware peer and state of the firmware.                *)
(***************************************************************************)
ESP_TIMEOUT_MS == 30000

\* esp32Status at process start; seen: lastSeen is not null.
esp32Status == [online |-> FALSE, seen |-> FALSE, lastSeen |-> 0]

Modes == {"normal", "wave", "pulse", "disco"}

\* The firmware after setup(): globals at their initialisers, pins low.
\* last (history): the branch the last hardwareEngine call took.
FwBoot ==
    [led1 |-> FALSE, led2 |-> FALSE, led3 |-> FALSE, killSwitch |-> FALSE,
     mode |-> "normal", lastAnim |-> 0, waveStep |-> 0, pulse |-> FALSE,
     pins |-> [LED1 |-> FALSE, LED2 |-> FALSE, LED3 |-> FALSE],
     last |-> "setup"]

\* The firmware's stream before startStream(): not open, nothing received.
NoStream == [on |-> FALSE, q |-> <<>>]

(***************************************************************************)
(* Operations of the watcher-driven server (src/test-firebase.js).         *)
(* ok: whether the store write of the step succeeds.                       *)
(***************************************************************************)

\* POST /api/timer/start: validate, clearAllTimers, executeTimer (set of the
\* record; the watcher arms the countdown).  A duration that converts to NaN
\* gives endsAt = NaN, which set() refuses by throwing: the catch answers 500.
StartTimer(p, body, ok, j1, j2) ==
    LET v == ValidateStart(body)
        devices == [i \in DOMAIN body.devices.a |-> body.devices.a[i].s]
        rec == TimerRecord(TimerId(now), devices, body.duration,
                           ToNumber(body.duration).n, body.action.s, j1, j2)
    IN  /\ ops < MaxOps
        /\ ops' = ops + 1
        /\ now + j1 + j2 <= MaxNow
        /\ IF v # "ok"
           THEN /\ resp' = Response("start", 400, v)
                /\ UNCHANGED <<now, doc, inbox, activeTimers, timeouts,
                               accepted, failures>>
           ELSE /\ activeTimers' = [activeTimers EXCEPT ![p] = {}]
                /\ timeouts' = [timeouts EXCEPT ![p] = ClearedTimeouts(p)]
                /\ now' = now + j1 + j2
                /\ Outcome(ok)
                /\ IF ok /\ ~ToNumber(body.duration).nan
                   THEN /\ CanNotify
                        /\ doc' = [doc EXCEPT !.timer = rec]
                        /\ Notify(rec)
                        /\ accepted' = Append(accepted, rec)
                        /\ resp' = Response("start", 200, "")
                   ELSE /\ resp' = Response("start", 500, "store")
                        /\ UNCHANGED <<doc, inbox, accepted>>
        /\ lastWatch' = NoWatch
        /\ UNCHANGED <<subs, execs, restarts, redelivered, probe, pending, esp, fw, stream>>

\* GET /do/timer/:device/:duration/:action: validate and set the record; the
\* local countdowns are left alone.
DoTimer(p, params, ok, j1, j2) ==
    LET v == ValidateDoTimer(params)
        duration == parseInt(params.duration)
        rec == TimerRecord(TimerId(now),
                           <<DEVICE_ALIASES(toLowerCase(params.device))>>,
                           Num(duration.n), duration.n,
                           toLowerCase(params.action), j1, j2)
    IN  /\ ops < MaxOps
        /\ ops' = ops + 1
        /\ now + j1 + j2 <= MaxNow
        /\ IF v # "ok"
           THEN /\ resp' = Response("do-timer", 400, v)
                /\ UNCHANGED <<now, doc, inbox, accepted, failures>>
           ELSE /\ now' = now + j1 + j2
                /\ Outcome(ok)
                /\ IF ok
                   THEN /\ CanNotify
                        /\ doc' = [doc EXCEPT !.timer = rec]
                        /\ Notify(rec)
                        /\ accepted' = Append(accepted, rec)
                        /\ resp' = Response("do-timer", 200, "")
                   ELSE /\ resp' = Response("do-timer", 500, "store")
                        /\ UNCHANGED <<doc, inbox, accepted>>
        /\ lastWatch' = NoWatch
        /\ UNCHANGED <<activeTimers, timeouts, subs, execs, restarts,
                       redelivered, probe, pending, esp, fw, stream>>

\* The timer watcher, on('value') of smartHomeState/timer, handling the oldest
\* snapshot not yet handled.
Watcher(p, ok) ==
    /\ inbox[p] # <<>>
    /\ LET timer == Head(inbox[p])
           rest == Tail(inbox[p])
       IN  IF IsActive(timer)
           THEN IF Tracking(p, timer.id)
                THEN /\ inbox' = [inbox EXCEPT ![p] = rest]
                     /\ lastWatch' = Skipped(p, timer)
                     /\ UNCHANGED <<doc, activeTimers, timeouts, execs,
                                    failures>>
                ELSE LET remaining == Remaining(timer)
                         kept == ClearedTimeouts(p)
                         h == FreshHandle(kept)
                     IN  IF remaining <= 0
                         THEN /\ activeTimers' = [activeTimers EXCEPT ![p] = {}]
                              /\ timeouts' = [timeouts EXCEPT ![p] = kept]
                              /\ lastWatch' = Watched(p, timer)
                              /\ execs' = Record(p, timer, "snapshot", ok)
                              /\ Outcome(ok)
                              /\ IF ok
                                 THEN /\ \A q \in subs \ {p} :
                                            Len(inbox[q]) < MaxQueue
                                      /\ doc' = Merge(doc, TimerUpdates(timer))
                                      /\ inbox' = [q \in Procs |->
                                            IF q = p THEN Append(rest, NoTimer)
                                            ELSE IF q \in subs
                                                 THEN Append(inbox[q], NoTimer)
                                                 ELSE inbox[q]]
                                 ELSE /\ inbox' = [inbox EXCEPT ![p] = rest]
                                      /\ UNCHANGED doc
                         ELSE /\ activeTimers' =
                                    [activeTimers EXCEPT
                                        ![p] = {[id |-> timer.id, h |-> h]}]
                              /\ timeouts' =
                                    [timeouts EXCEPT ![p] = kept \cup
                                        {[h |-> h, timer |-> timer,
                                          delay |-> remaining,
                                          due |-> now + remaining,
                                          st |-> "pending"]}]
                              /\ inbox' = [inbox EXCEPT ![p] = rest]
                              /\ lastWatch' = NoWatch
                              /\ UNCHANGED <<doc, execs, failures>>
           ELSE /\ activeTimers' = [activeTimers EXCEPT ![p] = {}]
                /\ timeouts' = [timeouts EXCEPT ![p] = ClearedTimeouts(p)]
                /\ inbox' = [inbox EXCEPT ![p] = rest]
                /\ lastWatch' = NoWatch
                /\ UNCHANGED <<doc, execs, failures>>
    /\ UNCHANGED <<now, subs, accepted, ops, restarts, redelivered, resp,
                   probe, pending, esp, fw, stream>>

\* The setTimeout callback of the watcher, up to its await: the merge-write of
\* the record captured when the countdown was armed.
Expire(p, t, ok) ==
    /\ t \in timeouts[p]
    /\ t.st = "pending"
    /\ now >= t.due
    /\ execs' = Record(p, t.timer, "countdown", ok)
    /\ Outcome(ok)
    /\ IF ok
       THEN /\ CanNotify
            /\ doc' = Merge(doc, TimerUpdates(t.timer))
            /\ Notify(NoTimer)
            /\ timeouts' = [timeouts EXCEPT
                    ![p] = (timeouts[p] \ {t}) \cup {[t EXCEPT !.st = "running"]}]
       ELSE \* the await throws: the rest of the callback is skipped
            /\ timeouts' = [timeouts EXCEPT ![p] = timeouts[p] \ {t}]
            /\ UNCHANGED <<doc, inbox>>
    /\ lastWatch' = NoWatch
    /\ UNCHANGED <<now, activeTimers, subs, accepted, ops, restarts,
                   redelivered, resp, probe, pending, esp, fw, stream>>

\* The setTimeout callback after its await: delete activeTimers[timer.id].
FireDone(p, t) ==
    /\ t \in timeouts[p]
    /\ t.st = "running"
    /\ activeTimers' = [activeTimers EXCEPT
            ![p] = {e \in activeTimers[p] : e.id # t.timer.id}]
    /\ timeouts' = [timeouts EXCEPT ![p] = timeouts[p] \ {t}]
    /\ lastWatch' = NoWatch
    /\ UNCHANGED <<now, doc, inbox, subs, accepted, execs, ops, failures,
                   restarts, redelivered, resp, probe, pending, esp, fw, stream>>

\* POST /api/timer/cancel and GET /do/timer-cancel.
CancelTimer(p, ok) ==
    /\ ops < MaxOps
    /\ ops' = ops + 1
    /\ Outcome(ok)
    /\ activeTimers' = [activeTimers EXCEPT ![p] = {}]
    /\ timeouts' = [timeouts EXCEPT ![p] = ClearedTimeouts(p)]
    /\ IF ok
       THEN /\ CanNotify
            /\ doc' = [doc EXCEPT !.timer = NoTimer]
            /\ Notify(NoTimer)
            /\ resp' = Response("cancel", 200, "")
       ELSE /\ resp' = Response("cancel", 500, "store")
            /\ UNCHANGED <<doc, inbox>>
    /\ lastWatch' = NoWatch
    /\ UNCHANGED <<now, subs, accepted, execs, restarts, redelivered, probe, pending, esp, fw, stream>>

\* The clock.
Tick ==
    /\ now + TickMs <= MaxNow
    /\ now' = now + TickMs
    /\ lastWatch' = NoWatch
    /\ UNCHANGED <<doc, inbox, activeTimers, timeouts, subs, accepted, execs,
                   ops, failures, restarts, redelivered, resp, probe, pending, esp, fw, stream>>

\* A process restart: the countdown table and the callbacks are lost, and the
\* new subscription delivers the document's timer as its initial snapshot.
Restart(p) ==
    /\ restarts < MaxRestarts
    /\ restarts' = restarts + 1
    /\ activeTimers' = [activeTimers EXCEPT ![p] = {}]
    /\ timeouts' = [timeouts EXCEPT ![p] = {}]
    /\ inbox' = [inbox EXCEPT ![p] = <<doc.timer>>]
    /\ lastWatch' = NoWatch
    /\ pending' = {c \in pending : c.p # p}
    /\ esp' = [esp EXCEPT ![p] = esp32Status]
    /\ UNCHANGED <<now, doc, subs, accepted, execs, ops, failures, redelivered,
                   resp, probe, fw, stream>>

\* A redundant notification: the store delivers the oldest pending snapshot of
\* a process twice.
Redeliver(p) ==
    /\ redelivered < MaxRedeliver
    /\ inbox[p] # <<>>
    /\ Len(inbox[p]) < MaxQueue
    /\ redelivered' = redelivered + 1
    /\ inbox' = [inbox EXCEPT ![p] = <<Head(inbox[p])>> \o inbox[p]]
    /\ lastWatch' = NoWatch
    /\ UNCHANGED <<now, doc, activeTimers, timeouts, subs, accepted, execs,
                   ops, failures, restarts, resp, probe, pending, esp, fw, stream>>

(***************************************************************************)
(* Operations of the direct-arm server (src/server.js): executeTimer sets   *)
(* the record and, after the await, arms the countdown itself for the full  *)
(* duration; the process has no watcher.  A callback record goes through    *)
(* the stages arming (executeTimer awaits its set), pending, clearing (the  *)
(* callback awaits its update), deleting (the callback awaits its set of    *)
(* null).                                                                   *)
(***************************************************************************)

\* The updates object of the direct-arm callback: outputs and kill only.
DirectUpdates(timer) ==
    LET keys == Range(timer.devices)
                \cup (IF timer.action = "on" THEN {"kill"} ELSE {})
    IN  [k \in keys |->
            IF k = "kill" /\ timer.action = "on" THEN FALSE
            ELSE timer.action = "on"]

\* POST /api/timer/start up to the await in executeTimer; set() throws on
\* endsAt = NaN as above.
DirectStartTimer(p, body, ok, j1, j2) ==
    LET v == ValidateStartDirect(body)
        devices == [i \in DOMAIN body.devices.a |-> body.devices.a[i].s]
        seconds == ToNumber(body.duration).n
        rec == TimerRecord(TimerId(now), devices, body.duration, seconds,
                           body.action.s, j1, j2)
        kept == ClearedTimeouts(p)
    IN  /\ ops < MaxOps
        /\ ops' = ops + 1
        /\ now + j1 + j2 <= MaxNow
        /\ IF v # "ok"
           THEN /\ resp' = Response("start-direct", 400, v)
                /\ UNCHANGED <<now, doc, inbox, activeTimers, timeouts,
                               accepted, failures>>
           ELSE /\ activeTimers' = [activeTimers EXCEPT ![p] = {}]
                /\ now' = now + j1 + j2
                /\ Outcome(ok)
                /\ IF ok /\ ~ToNumber(body.duration).nan
                   THEN /\ CanNotify
                        /\ doc' = [doc EXCEPT !.timer = rec]
                        /\ Notify(rec)
                        /\ accepted' = Append(accepted, rec)
                        /\ timeouts' = [timeouts EXCEPT ![p] = kept \cup
                                {[h |-> FreshHandle(kept), timer |-> rec,
                                  delay |-> seconds * 1000, due |-> 0,
                                  st |-> "arming"]}]
                        /\ resp' = Response("start-direct", 0, "awaiting")
                   ELSE /\ timeouts' = [timeouts EXCEPT ![p] = kept]
                        /\ resp' = Response("start-direct", 500, "store")
                        /\ UNCHANGED <<doc, inbox, accepted>>
        /\ lastWatch' = NoWatch
        /\ UNCHANGED <<subs, execs, restarts, redelivered, probe, pending, esp, fw, stream>>

\* executeTimer after its await: activeTimers[id] = setTimeout(..., duration * 1000).
DirectArm(p, t) ==
    /\ t \in timeouts[p]
    /\ t.st = "arming"
    /\ activeTimers' = [activeTimers EXCEPT
            ![p] = {e \in activeTimers[p] : e.id # t.timer.id}
                   \cup {[id |-> t.timer.id, h |-> t.h]}]
    /\ timeouts' = [timeouts EXCEPT
            ![p] = (timeouts[p] \ {t})
                   \cup {[t EXCEPT !.st = "pending", !.due = now + t.delay]}]
    /\ resp' = Response("start-direct", 200, "")
    /\ lastWatch' = NoWatch
    /\ UNCHANGED <<now, doc, inbox, subs, accepted, execs, ops, failures,
                   restarts, redelivered, probe, pending, esp, fw, stream>>

\* The callback up to its first await: update of the outputs.
DirectExpire(p, t, ok) ==
    /\ t \in timeouts[p]
    /\ t.st = "pending"
    /\ now >= t.due
    /\ execs' = Record(p, t.timer, "countdown", ok)
    /\ Outcome(ok)
    /\ IF ok
       THEN /\ doc' = Merge(doc, DirectUpdates(t.timer))
            /\ timeouts' = [timeouts EXCEPT
                    ![p] = (timeouts[p] \ {t}) \cup {[t EXCEPT !.st = "clearing"]}]
       ELSE /\ timeouts' = [timeouts EXCEPT ![p] = timeouts[p] \ {t}]
            /\ UNCHANGED doc
    /\ lastWatch' = NoWatch
    /\ UNCHANGED <<now, inbox, activeTimers, subs, accepted, ops, restarts,
                   redelivered, resp, probe, pending, esp, fw, stream>>

\* The callback up to its second await: set of timer to null.
DirectClear(p, t, ok) ==
    /\ t \in timeouts[p]
    /\ t.st = "clearing"
    /\ Outcome(ok)
    /\ IF ok
       THEN /\ CanNotify
            /\ doc' = [doc EXCEPT !.timer = NoTimer]
            /\ Notify(NoTimer)
            /\ timeouts' = [timeouts EXCEPT
                    ![p] = (timeouts[p] \ {t}) \cup {[t EXCEPT !.st = "deleting"]}]
       ELSE /\ timeouts' = [timeouts EXCEPT ![p] = timeouts[p] \ {t}]
            /\ UNCHANGED <<doc, inbox>>
    /\ lastWatch' = NoWatch
    /\ UNCHANGED <<now, activeTimers, subs, accepted, execs, ops, restarts,
                   redelivered, resp, probe, pending, esp, fw, stream>>

\* The end of the callback: delete activeTimers[id].
DirectDone(p, t) ==
    /\ t \in timeouts[p]
    /\ t.st = "deleting"
    /\ activeTimers' = [activeTimers EXCEPT
            ![p] = {e \in activeTimers[p] : e.id # t.timer.id}]
    /\ timeouts' = [timeouts EXCEPT ![p] = timeouts[p] \ {t}]
    /\ lastWatch' = NoWatch
    /\ UNCHANGED <<now, doc, inbox, subs, accepted, execs, ops, failures,
                   restarts, redelivered, resp, probe, pending, esp, fw, stream>>

(***************************************************************************)
(* The system: two server processes on one document.  The document found   *)
(* at start is any of InitDocs; every process has subscribed and its       *)
(* initial snapshot is pending.                                            *)
(***************************************************************************)
InitDocs ==
    {defaultState,
     [defaultState EXCEPT !.led1 = TRUE, !.kill = TRUE, !.timer = InactiveTimer]}

NoProbe == [kind |-> "none"]

InitState(running) ==
    /\ now = 0
    /\ doc \in InitDocs
    /\ subs = running
    /\ inbox = [p \in Procs |-> IF p \in running THEN <<doc.timer>> ELSE <<>>]
    /\ activeTimers = [p \in Procs |-> {}]
    /\ timeouts = [p \in Procs |-> {}]
    /\ accepted = <<>>
    /\ execs = EmptyBag
    /\ ops = 0
    /\ failures = 0
    /\ restarts = 0
    /\ redelivered = 0
    /\ resp = Response("none", 0, "")
    /\ lastWatch = NoWatch
    /\ pending = {}
    /\ esp = [p \in Procs |-> esp32Status]
    /\ fw = FwBoot
    /\ stream = NoStream

InitWith(running) == InitState(running) /\ probe = NoProbe

Init == InitWith(Watchers)

\* The runs of most specifications are kept within MaxReqs requests (Open:
\* one more may be handled) and MaxInbox snapshots waiting at a process.
Open == ops < MaxReqs

Within == \A p \in Procs : Len(inbox[p]) <= MaxInbox

\* Two processes, a store that does not fail.
Next ==
    \/ /\ Open
       /\ \E p \in subs, body \in StartBodies :
                StartTimer(p, body, TRUE, 0, 0)
       /\ Within'
    \/ /\ Open
       /\ \E p \in subs, params \in DoTimerParams :
                DoTimer(p, params, TRUE, 0, 0)
       /\ Within'
    \/ \E p \in subs : Watcher(p, TRUE) /\ Within'
    \/ \E p \in subs : \E t \in timeouts[p] : Expire(p, t, TRUE) /\ Within'
    \/ \E p \in subs : \E t \in timeouts[p] : FireDone(p, t) /\ Within'
    \/ Open /\ (\E p \in subs : CancelTimer(p, TRUE)) /\ Within'
    \/ Tick

Spec == Init /\ [][Next]_vars

TypeOK ==
    /\ now \in 0..MaxNow
    /\ \A p \in Procs : Len(inbox[p]) <= MaxInbox
    /\ Len(accepted) <= MaxReqs

(***************************************************************************)
(* One process and one scheduling request, a store that does not fail,     *)
(* restarts of the process at any time.  The clock advances, and the event *)
(* loop runs every pending snapshot handler and every due countdown.       *)
(***************************************************************************)
Jitter == 0..MaxJitter

InitOne == InitWith({"p1"})

ScheduleOnce ==
    /\ ops = 0
    /\ now + MaxJitter + MaxJitter + MaxDuration * 1000 <= MaxNow
    /\ \E p \in subs, j1 \in Jitter, j2 \in Jitter :
        \/ \E body \in StartBodies : StartTimer(p, body, TRUE, j1, j2)
        \/ \E params \in DoTimerParams : DoTimer(p, params, TRUE, j1, j2)

Deliver == \E p \in subs : Watcher(p, TRUE)

Countdown == \E p \in subs : \E t \in timeouts[p] : Expire(p, t, TRUE)

Finish == \E p \in subs : \E t \in timeouts[p] : FireDone(p, t)

Crash == \E p \in subs : Restart(p)

NextOne ==
    \/ ScheduleOnce /\ Within'
    \/ Deliver /\ Within'
    \/ Countdown /\ Within'
    \/ Finish /\ Within'
    \/ Tick
    \/ Crash /\ Within'

SpecOne ==
    /\ InitOne
    /\ [][NextOne]_vars
    /\ WF_vars(Tick)
    /\ WF_vars(Deliver /\ Within')
    /\ WF_vars(Countdown /\ Within')
    /\ WF_vars(Finish /\ Within')

\* The merge-writes issued so far for the record r.
WritesFor(r) ==
    LET es == {e \in BagToSet(execs) : e.timer = r}
        RECURSIVE Sum(_)
        Sum(S) == IF S = {} THEN 0
                  ELSE LET e == CHOOSE x \in S : TRUE
                       IN  CopiesIn(e, execs) + Sum(S \ {e})
    IN  Sum(es)

\* The action of the record r shows in the document and the record is cleared.
Applied(r) ==
    /\ doc.timer = NoTimer
    /\ \A d \in Range(r.devices) : doc[d] = (r.action = "on")

\* C1: for one process and one accepted scheduling request that is not
\* cancelled, superseded or reset, the merge-write of the timer is issued at
\* most once at every moment and eventually exactly once, whatever restarts
\* of the process occur between the request and after the deadline.
C1_ExactlyOnce ==
    /\ [](accepted # <<>> => WritesFor(accepted[1]) <= 1)
    /\ (accepted # <<>>) ~> (accepted # <<>> /\ WritesFor(accepted[1]) = 1)

C1_Witness ==
    /\ accepted # <<>>
    /\ restarts = MaxRestarts
    /\ WritesFor(accepted[1]) = 1
    /\ \E e \in BagToSet(execs) : e.via = "snapshot"
    /\ Applied(accepted[1])

\* C4: after an accepted scheduling request with no intervening writes, the
\* document eventually has every device of the request equal to (action = on)
\* and timer = null, and no merge-write of the record is issued before
\* durationSeconds * 1000 ms have elapsed since the request.
C4_ScheduleAndFire ==
    /\ [](\A e \in BagToSet(execs) :
            now >= e.timer.id + ToNumber(e.timer.duration).n * 1000)
    /\ [](accepted # <<>> /\ doc.timer = NoTimer =>
            now >= accepted[1].id + ToNumber(accepted[1].duration).n * 1000)
    /\ (accepted # <<>>) ~> (accepted # <<>> /\ Applied(accepted[1]))

C4_Witness ==
    /\ accepted # <<>>
    /\ Applied(accepted[1])
    /\ \E e \in BagToSet(execs) :
            e.via = "countdown" /\ e.ok /\ e.timer = accepted[1]

\* C5: a process with an empty countdown table that handles a snapshot holding
\* an active record whose endsAt is not in the future sets the outputs per the
\* action and clears the timer in that step, and arms no countdown.
C5_CrashRecovery ==
    [][\A p \in subs :
        (/\ inbox[p] # <<>>
         /\ activeTimers[p] = {}
         /\ timeouts[p] = {}
         /\ IsActive(Head(inbox[p]))
         /\ Head(inbox[p]).endsAt <= now
         /\ Watcher(p, TRUE))
        => (/\ doc'.timer = NoTimer
            /\ \A d \in Range(Head(inbox[p]).devices) :
                    doc'[d] = (Head(inbox[p]).action = "on")
            /\ activeTimers'[p] = {}
            /\ timeouts'[p] = {})]_vars

C5_Witness ==
    /\ restarts > 0
    /\ lastWatch # NoWatch
    /\ lastWatch.n = 1
    /\ lastWatch.timer.endsAt < now
    /\ Applied(lastWatch.timer)
    /\ timeouts[lastWatch.p] = {}

\* C6: the countdown a process arms for an active record lasts exactly
\* max(0, endsAt - now) ms from the time of delivery, whatever the duration
\* and startedAt of the record.
C6_DeadlineRecomputation ==
    [][\A p \in subs : \A t \in timeouts'[p] \ timeouts[p] :
        t.st = "pending" =>
            /\ t.delay = Max(0, t.timer.endsAt - now)
            /\ t.due = now + t.delay]_vars

C6_Witness ==
    \E p \in subs : \E t \in timeouts[p] :
        /\ t.st = "pending"
        /\ t.delay > 0
        /\ t.delay < ToNumber(t.timer.duration).n * 1000
        /\ t.due = t.timer.endsAt

(***************************************************************************)
(* Claims on two processes (Spec).                                         *)
(***************************************************************************)
Last(q) == q[Len(q)]

\* C2: when the write of an accepted scheduling request is persisted, the
\* document holds one Timer Record, active, which is the record of that
\* request with the id generated for it; and at every instant the timer field
\* is null, the inactive placeholder or exactly one of the records requested.
C2_SingleActiveTimer ==
    /\ [][accepted' # accepted =>
            /\ Len(accepted') = Len(accepted) + 1
            /\ IsActive(doc'.timer)
            /\ doc'.timer = Last(accepted')
            /\ doc'.timer.id = now]_vars
    /\ [](doc.timer \in {NoTimer, InactiveTimer} \cup Range(accepted))

C2_Witness ==
    /\ Len(accepted) = 2
    /\ accepted[1].id # accepted[2].id
    /\ doc.timer = accepted[2]
    /\ IsActive(doc.timer)

\* C3: if timer B is scheduled after timer A and before the deadline of A, on
\* a different device, no countdown of A applies the action of A to the
\* document.
C3_SupersededNeverApplied ==
    \A i \in 1..(Len(accepted) - 1) :
        LET A == accepted[i]
            B == accepted[i + 1]
        IN  (/\ A.id < B.id
             /\ B.id < A.endsAt
             /\ Range(A.devices) \cap Range(B.devices) = {})
            => ~(\E e \in BagToSet(execs) :
                    e.timer = A /\ e.ok /\ e.via = "countdown")

\* C9: a countdown for timer id X that expires applies its merge-write only
\* when the persisted timer is still active with id X.
C9_ExpiryRevalidates ==
    [][\A p \in subs : \A t \in timeouts[p] :
        Expire(p, t, TRUE) =>
            (IsActive(doc.timer) /\ doc.timer.id = t.timer.id)]_vars

(***************************************************************************)
(* One process with redundant notifications: the store may deliver a       *)
(* pending snapshot twice.                                                 *)
(***************************************************************************)
Schedule ==
    \E p \in subs :
        \/ \E body \in StartBodies : StartTimer(p, body, TRUE, 0, 0)
        \/ \E params \in DoTimerParams : DoTimer(p, params, TRUE, 0, 0)

Cancel == \E p \in subs : CancelTimer(p, TRUE)

Duplicate == \E p \in subs : Redeliver(p)

NextDup ==
    \/ Open /\ Schedule /\ Within'
    \/ Open /\ Cancel /\ Within'
    \/ Deliver /\ Within'
    \/ Duplicate /\ Within'
    \/ Countdown /\ Within'
    \/ Finish /\ Within'
    \/ Tick
    \/ Crash /\ Within'

SpecDup == InitOne /\ [][NextDup]_vars

\* C7: when a process handles the same snapshot "timer active, remaining = 0"
\* twice in a row, the second handling leaves the document (device outputs,
\* kill, timer = null) as the first one left it.
C7_IdempotentFiring ==
    [][\A p \in subs :
        (/\ lastWatch.p = p
         /\ lastWatch.n > 0
         /\ inbox[p] # <<>>
         /\ Head(inbox[p]) = lastWatch.timer
         /\ Watcher(p, TRUE))
        => (doc' = doc /\ doc'.timer = NoTimer)]_vars

C7_Witness ==
    /\ lastWatch # NoWatch
    /\ lastWatch.n = 2
    /\ WritesFor(lastWatch.timer) = 2
    /\ Applied(lastWatch.timer)

\* C8: a snapshot carrying an active record whose id the process is armed for
\* leaves the countdown table, the countdowns (handle, delay, fire time), the
\* document and the writes issued as they are; and the countdown of a record
\* whose id no other requested record carries fires at most once in a process.
C8_AlreadyTracking ==
    /\ [][\A p \in subs :
            (/\ inbox[p] # <<>>
             /\ IsActive(Head(inbox[p]))
             /\ \E e \in activeTimers[p] : e.id = Head(inbox[p]).id
             /\ Watcher(p, TRUE))
            => UNCHANGED <<activeTimers, timeouts, doc, execs>>]_vars
    /\ [](\A e \in BagToSet(execs) :
            (/\ e.via = "countdown"
             /\ \A i \in DOMAIN accepted :
                    accepted[i].id = e.timer.id => accepted[i] = e.timer)
            => CopiesIn(e, execs) = 1)

C8_Witness ==
    \E p \in subs : \E t \in timeouts[p] :
        /\ lastWatch.p = p
        /\ lastWatch.n = 0
        /\ lastWatch.timer = t.timer
        /\ t.st = "pending"
        /\ \E e \in activeTimers[p] : e.id = t.timer.id /\ e.h = t.h
        /\ t.delay > Remaining(t.timer)

(***************************************************************************)
(* One direct-arm server alone on the document.                            *)
(***************************************************************************)
InitDirect == InitWith({})

NextDirect ==
    \/ /\ Open
       /\ \E p \in Directs, body \in StartBodies :
                DirectStartTimer(p, body, TRUE, 0, 0)
       /\ Within'
    \/ \E p \in Directs : \E t \in timeouts[p] : DirectArm(p, t) /\ Within'
    \/ \E p \in Directs : \E t \in timeouts[p] : DirectExpire(p, t, TRUE)
        /\ Within'
    \/ \E p \in Directs : \E t \in timeouts[p] : DirectClear(p, t, TRUE)
        /\ Within'
    \/ \E p \in Directs : \E t \in timeouts[p] : DirectDone(p, t) /\ Within'
    \/ Open /\ (\E p \in Directs : CancelTimer(p, TRUE)) /\ Within'
    \/ Tick

SpecDirect == InitDirect /\ [][NextDirect]_vars

(***************************************************************************)
(* Request validation.  One request, drawn from the probes below, is sent  *)
(* to the scheduling routes of both servers; the watcher-driven process p1 *)
(* and the direct-arm process d1 share the document.                       *)
(***************************************************************************)
ProbeDevices ==
    {Undef, Null, Str("led1"), Arr(<<>>), Arr(<<Str("led1")>>),
     Arr(<<Str("tv")>>), Arr(<<Str("led1"), Str("led2")>>),
     Arr(<<Str("led1"), Str("garage")>>), Arr(<<Num(1)>>)}

ProbeDurations ==
    {Undef, Null, Num(0 - 1), Num(0), Num(1), Num(2), Num(86400), Num(86401),
     Chars(<<"5">>), Chars(<<"a">>), Bool(TRUE), Arr(<<Num(5)>>)}

ProbeActions == {Str("on"), Str("off"), Str("toggle"), Str("ON"), Undef, Bool(TRUE)}

ProbeBodies ==
    {Body(d, n, a) : d \in ProbeDevices, n \in ProbeDurations, a \in ProbeActions}

ProbeParams ==
    {Params(d, n, a) :
        d \in {"led1", "tv", "LED1", "Bedroom", "garage"},
        n \in {<<"1">>, <<"0">>, <<"5", "a">>, <<"a">>, <<"-", "1">>,
               <<"8", "6", "4", "0", "0">>, <<"8", "6", "4", "0", "1">>},
        a \in {"on", "off", "ON", "toggle"}}

Probes ==
    {[kind |-> "body", body |-> b] : b \in ProbeBodies}
    \cup {[kind |-> "params", params |-> q] : q \in ProbeParams}

InitValidate == InitState({"p1"}) /\ probe \in Probes

PostStart == probe.kind = "body" /\ StartTimer("p1", probe.body, TRUE, 0, 0)

PostStartDirect ==
    probe.kind = "body" /\ DirectStartTimer("d1", probe.body, TRUE, 0, 0)

GetDoTimer == probe.kind = "params" /\ DoTimer("p1", probe.params, TRUE, 0, 0)

Armed == \E t \in timeouts["d1"] : DirectArm("d1", t)

NextValidate ==
    \/ Open /\ PostStart /\ Within'
    \/ Open /\ PostStartDirect /\ Within'
    \/ Open /\ GetDoTimer /\ Within'
    \/ Armed /\ Within'
    \/ Deliver /\ Within'

SpecValidate == InitValidate /\ [][NextValidate]_vars

\* The request of the probe as the scheduling contract reads it: a list of
\* devices, a number of seconds, an action.
ProbeRequest ==
    IF probe.kind = "body" THEN probe.body
    ELSE Body(Arr(<<Str(probe.params.device)>>),
              IF StringToNumber(probe.params.duration).nan
                  THEN Chars(probe.params.duration)
                  ELSE Num(StringToNumber(probe.params.duration).n),
              Str(probe.params.action))

\* C10: a scheduling request is accepted if and only if devices is a
\* non-empty list of known devices (led1, led2, led3, tv), action is on or
\* off, and duration is a number of seconds from 1 to 86400; every other
\* request is answered with the validation error.
C10_AcceptedIffValid ==
    LET r == ProbeRequest
        valid == /\ r.devices.t = "array"
                 /\ Len(r.devices.a) > 0
                 /\ \A i \in DOMAIN r.devices.a :
                        \E d \in {"led1", "led2", "led3", "tv"} :
                            r.devices.a[i] = Str(d)
                 /\ r.action \in {Str("on"), Str("off")}
                 /\ r.duration.t = "number"
                 /\ r.duration.n >= 1
                 /\ r.duration.n <= 86400
    IN  resp.op \in {"start", "start-direct", "do-timer"}
            => ((resp.status # 400) <=> valid)

(***************************************************************************)
(* Rejected requests.                                                      *)
(***************************************************************************)

\* C11: a scheduling request answered with the validation error changes
\* nothing: the document with its Timer Record, the countdown tables and the
\* countdowns of every process, and the notifications in flight are the same
\* after the request as before it.
C11_RejectedChangesNothing ==
    [][(ops' # ops /\ resp'.op \in {"start", "do-timer"} /\ resp'.status = 400)
        => UNCHANGED <<doc, activeTimers, timeouts, inbox, accepted, execs>>]_vars

C11_Witness ==
    /\ resp.op = "start"
    /\ resp.status = 400
    /\ ops = MaxReqs
    /\ IsActive(doc.timer)
    /\ \E p \in subs : \E t \in timeouts[p] :
            /\ t.st = "pending"
            /\ t.timer = doc.timer
            /\ \E e \in activeTimers[p] : e.h = t.h

(***************************************************************************)
(* Cancellation.  Process p2 takes the scheduling requests, process p1 the *)
(* cancellation requests; both run the watcher.                            *)
(***************************************************************************)
ScheduleAtPeer == \E body \in GoodBodies : StartTimer("p2", body, TRUE, 0, 0)

CancelHere == CancelTimer("p1", TRUE)

WatchAny == \E p \in subs : Watcher(p, TRUE)

ExpireAny == \E p \in subs : \E t \in timeouts[p] : Expire(p, t, TRUE)

DoneAny == \E p \in subs : \E t \in timeouts[p] : FireDone(p, t)

NextCancel ==
    \/ Open /\ ScheduleAtPeer /\ Within'
    \/ Open /\ CancelHere /\ Within'
    \/ WatchAny /\ Within'
    \/ ExpireAny /\ Within'
    \/ DoneAny /\ Within'
    \/ Tick

SpecCancel == Init /\ [][NextCancel]_vars

\* The successful merge-writes that process p has issued for record r.
AppliedBy(p, r) ==
    CopiesIn([p |-> p, timer |-> r, via |-> "snapshot", ok |-> TRUE], execs)
    + CopiesIn([p |-> p, timer |-> r, via |-> "countdown", ok |-> TRUE], execs)

\* C12: when a cancellation request has completed successfully, the process
\* that handled it has no armed countdown and the persisted timer is null;
\* and from then on that process never applies the action of a timer
\* requested before the cancellation.
C12_CancelIsFinal ==
    /\ [][CancelHere =>
            /\ activeTimers'["p1"] = {}
            /\ \A t \in timeouts'["p1"] : t.st # "pending"
            /\ doc'.timer = NoTimer]_vars
    /\ [][(resp.op = "cancel" /\ resp.status = 200 /\ resp' = resp) =>
            \A i \in DOMAIN accepted :
                AppliedBy("p1", accepted[i])' = AppliedBy("p1", accepted[i])]_vars

(***************************************************************************)
(* The firmware (src/unnamed/part_000).  millis() is the clock of the      *)
(* model; HIGH is TRUE and LOW is FALSE.                                   *)
(***************************************************************************)
FwFrame ==
    UNCHANGED <<now, doc, inbox, activeTimers, timeouts, subs, accepted, execs,
                ops, failures, restarts, redelivered, resp, probe, pending, esp>>

\* Fault of the callback: the object received is taken for the whole
\* document, and a key it lacks puts the field back to its initialiser.
streamRootSnapshot(data) ==
    /\ fw' = [fw EXCEPT
            !.led1 = IF "led1" \in DOMAIN data THEN data.led1 ELSE FALSE,
            !.led2 = IF "led2" \in DOMAIN data THEN data.led2 ELSE FALSE,
            !.led3 = IF "led3" \in DOMAIN data THEN data.led3 ELSE FALSE,
            !.killSwitch = IF "kill" \in DOMAIN data THEN data.kill ELSE FALSE,
            !.mode = IF "mode" \in DOMAIN data THEN data.mode ELSE "normal"]
    /\ lastWatch' = NoWatch
    /\ FwFrame

\* streamCallback for the path "/": data is the object received, a function
\* on the keys it holds.
streamRoot(data) ==
    /\ fw' = [fw EXCEPT
            !.led1 = IF "led1" \in DOMAIN data THEN data.led1 ELSE @,
            !.led2 = IF "led2" \in DOMAIN data THEN data.led2 ELSE @,
            !.led3 = IF "led3" \in DOMAIN data THEN data.led3 ELSE @,
            !.killSwitch = IF "kill" \in DOMAIN data THEN data.kill ELSE @,
            !.mode = IF "mode" \in DOMAIN data THEN data.mode ELSE @]
    /\ lastWatch' = NoWatch
    /\ FwFrame

\* streamCallback for the path of one field; any other path is ignored.
streamField(path, data) ==
    /\ fw' = CASE path = "/led1" -> [fw EXCEPT !.led1 = data]
               [] path = "/led2" -> [fw EXCEPT !.led2 = data]
               [] path = "/led3" -> [fw EXCEPT !.led3 = data]
               [] path = "/kill" -> [fw EXCEPT !.killSwitch = data]
               [] path = "/mode" -> [fw EXCEPT !.mode = data]
               [] OTHER -> fw
    /\ lastWatch' = NoWatch
    /\ FwFrame

AllLow == [LED1 |-> FALSE, LED2 |-> FALSE, LED3 |-> FALSE]

\* A firmware whose engine never sees the kill switch.
KillIgnored == FALSE

\* if(killSwitch)
KillActive == fw.killSwitch

\* One call of hardwareEngine() from loop().
hardwareEngine ==
    /\ IF KillActive
       THEN fw' = [fw EXCEPT !.pins = AllLow, !.last = "kill"]
       ELSE IF fw.mode = "normal"
       THEN fw' = [fw EXCEPT
                !.pins = [LED1 |-> fw.led1, LED2 |-> fw.led2, LED3 |-> fw.led3],
                !.last = "normal"]
       ELSE IF now - fw.lastAnim < 200
       THEN fw' = [fw EXCEPT !.last = "wait"]
       ELSE IF fw.mode = "wave"
       THEN fw' = [fw EXCEPT
                !.lastAnim = now,
                !.pins = [LED1 |-> fw.waveStep = 0, LED2 |-> fw.waveStep = 1,
                          LED3 |-> fw.waveStep = 2],
                !.waveStep = (fw.waveStep + 1) % 3,
                !.last = "wave"]
       ELSE IF fw.mode = "pulse"
       THEN fw' = [fw EXCEPT
                !.lastAnim = now,
                !.pulse = ~fw.pulse,
                !.pins = [LED1 |-> ~fw.pulse, LED2 |-> ~fw.pulse,
                          LED3 |-> ~fw.pulse],
                !.last = "pulse"]
       ELSE IF fw.mode = "disco"
       THEN \E r1, r2, r3 \in BOOLEAN :
                fw' = [fw EXCEPT
                    !.lastAnim = now,
                    !.pins = [LED1 |-> r1, LED2 |-> r2, LED3 |-> r3],
                    !.last = "disco"]
       ELSE fw' = [fw EXCEPT !.lastAnim = now, !.last = "none"]
    /\ lastWatch' = NoWatch
    /\ UNCHANGED stream
    /\ FwFrame

\* What the stream delivers: whole objects and single fields.
StreamObjects ==
    {[led1 |-> a, led2 |-> b, led3 |-> FALSE, tv |-> FALSE, kill |-> k, mode |-> m] :
        a, b, k \in BOOLEAN, m \in {"normal", "disco"}}

StreamRootEvent ==
    /\ \E data \in StreamObjects : streamRoot(data)
    /\ UNCHANGED stream

StreamFieldEvent ==
    /\ \/ \E path \in {"/led1", "/led2", "/led3", "/kill", "/tv"}, b \in BOOLEAN :
                streamField(path, b)
       \/ \E m \in Modes \cup {"party"} : streamField("/mode", m)
    /\ UNCHANGED stream

InitFirmware == InitWith({})

NextFirmware ==
    \/ StreamRootEvent
    \/ StreamFieldEvent
    \/ hardwareEngine
    \/ Tick

SpecFirmware == InitFirmware /\ [][NextFirmware]_vars

\* C13: every call of hardwareEngine made while the kill flag is true leaves
\* LED1, LED2 and LED3 low, whatever mode and led1..led3 are; pins change
\* only in calls of hardwareEngine, so none is driven high while the flag is
\* true.
C13_KillForcesLow ==
    /\ [][(fw.killSwitch /\ hardwareEngine) => fw'.pins = AllLow]_vars
    /\ [][(fw.killSwitch /\ fw'.pins # fw.pins) => fw'.pins = AllLow]_vars
    /\ [](fw.last = "kill" => fw.pins = AllLow)

C13_Witness ==
    /\ fw.last = "kill"
    /\ fw.killSwitch
    /\ fw.led1 /\ fw.led2 /\ fw.led3
    /\ fw.mode = "disco"
    /\ now - fw.lastAnim >= 200
    /\ fw.pins = AllLow

(***************************************************************************)
(* Routes that write the device outputs, the mode and the kill flag        *)
(* (src/test-firebase.js).  None of them touches smartHomeState/timer, so  *)
(* none is notified to the timer watchers; Reset replaces the whole        *)
(* document and is.                                                        *)
(***************************************************************************)
DocFrame ==
    UNCHANGED <<now, inbox, activeTimers, timeouts, subs, accepted, execs, ops,
                restarts, redelivered, probe, esp, fw, stream>>

\* await db.ref("smartHomeState").update(updates) and the answer of route op.
UpdateDoc(p, op, updates, ok) ==
    /\ Outcome(ok)
    /\ doc' = IF ok THEN Merge(doc, updates) ELSE doc
    /\ resp' = IF ok THEN Response(op, 200, "") ELSE Response(op, 500, "store")
    /\ lastWatch' = NoWatch
    /\ UNCHANGED pending
    /\ DocFrame

\* Fault of the kill: the update clears the timer record as well.
KillClearsTimer(p, ok) ==
    UpdateDoc(p, "kill",
              [led1 |-> FALSE, led2 |-> FALSE, led3 |-> FALSE, kill |-> TRUE,
               mode |-> "normal", timer |-> NoTimer], ok)

\* POST /api/kill.
Kill(p, ok) ==
    UpdateDoc(p, "kill",
              [led1 |-> FALSE, led2 |-> FALSE, led3 |-> FALSE, kill |-> TRUE,
               mode |-> "normal"], ok)

\* GET /do/emergency.
Emergency(p, ok) ==
    UpdateDoc(p, "emergency",
              [led1 |-> FALSE, led2 |-> FALSE, led3 |-> FALSE, tv |-> FALSE,
               kill |-> TRUE], ok)

\* POST /api/all-on and GET /do/lights-on.
AllOn(p, ok) ==
    UpdateDoc(p, "all-on",
              [led1 |-> TRUE, led2 |-> TRUE, led3 |-> TRUE, kill |-> FALSE], ok)

\* POST /api/all-off and GET /do/lights-off.
AllOff(p, ok) ==
    UpdateDoc(p, "all-off", [led1 |-> FALSE, led2 |-> FALSE, led3 |-> FALSE], ok)

\* GET /do/all-on.
DoAllOn(p, ok) ==
    UpdateDoc(p, "do-all-on",
              [led1 |-> TRUE, led2 |-> TRUE, led3 |-> TRUE, tv |-> TRUE,
               kill |-> FALSE], ok)

\* GET /do/all-off.
DoAllOff(p, ok) ==
    UpdateDoc(p, "do-all-off",
              [led1 |-> FALSE, led2 |-> FALSE, led3 |-> FALSE, tv |-> FALSE], ok)

\* POST /api/mode/:mode.
SetMode(p, mode, ok) ==
    IF mode \notin {"normal", "wave", "pulse"}
    THEN /\ resp' = Response("mode", 400, "mode")
         /\ lastWatch' = NoWatch
         /\ UNCHANGED <<doc, failures, pending>>
         /\ DocFrame
    ELSE /\ Outcome(ok)
         /\ doc' = IF ok THEN [doc EXCEPT !.mode = mode] ELSE doc
         /\ resp' = IF ok THEN Response("mode", 200, "")
                    ELSE Response("mode", 500, "store")
         /\ lastWatch' = NoWatch
         /\ UNCHANGED pending
         /\ DocFrame

\* The updates object of the OnOff command of the voice assistant and of
\* GET /do/:device/on|off|toggle: the devices, and kill cleared when turning on.
OnOffUpdates(ids, on) ==
    [k \in ids \cup (IF on THEN {"kill"} ELSE {}) |->
        IF k = "kill" /\ on THEN FALSE ELSE on]

\* EXECUTE of the voice assistant, command OnOff on the devices ids.
GoogleExecute(p, ids, on, ok) == UpdateDoc(p, "execute", OnOffUpdates(ids, on), ok)

\* POST /api/toggle/:led up to its first await: the read of the device.
Toggle(p, led) ==
    /\ IF led \notin KnownDevices
       THEN /\ resp' = Response("toggle", 400, "device")
            /\ UNCHANGED pending
       ELSE /\ Cardinality({c \in pending : c.p = p}) < MaxPending
            /\ pending' = pending \cup
                    {[op |-> "toggle", p |-> p, key |-> led, newVal |-> ~doc[led]]}
            /\ UNCHANGED resp
    /\ lastWatch' = NoWatch
    /\ UNCHANGED <<doc, failures>>
    /\ DocFrame

\* POST /api/toggle/:led after the read: set of smartHomeState/<led> alone.
ToggleWrite(c, ok) ==
    /\ c \in pending
    /\ c.op = "toggle"
    /\ Outcome(ok)
    /\ doc' = IF ok THEN [doc EXCEPT ![c.key] = c.newVal] ELSE doc
    /\ resp' = IF ok THEN Response("toggle", 200, "")
               ELSE Response("toggle", 500, "store")
    /\ pending' = pending \ {c}
    /\ lastWatch' = NoWatch
    /\ DocFrame

\* GET /do/:device/:action up to its first await: for toggle the read of the
\* device; for on and off the update itself.
DoDevice(p, device, action, ok) ==
    LET deviceKey == DEVICE_ALIASES(toLowerCase(device))
        act == toLowerCase(action)
    IN  IF deviceKey = ""
        THEN /\ resp' = Response("do", 400, "device")
             /\ lastWatch' = NoWatch
             /\ UNCHANGED <<doc, failures, pending>>
             /\ DocFrame
        ELSE IF act \notin {"on", "off", "toggle"}
        THEN /\ resp' = Response("do", 400, "action")
             /\ lastWatch' = NoWatch
             /\ UNCHANGED <<doc, failures, pending>>
             /\ DocFrame
        ELSE IF act = "toggle"
        THEN /\ Cardinality({c \in pending : c.p = p}) < MaxPending
             /\ pending' = pending \cup
                    {[op |-> "do", p |-> p, key |-> deviceKey,
                      newVal |-> ~doc[deviceKey]]}
             /\ lastWatch' = NoWatch
             /\ UNCHANGED <<doc, failures, resp>>
             /\ DocFrame
        ELSE UpdateDoc(p, "do", OnOffUpdates({deviceKey}, act = "on"), ok)

\* GET /do/:device/toggle after the read.
DoDeviceWrite(c, ok) ==
    /\ c \in pending
    /\ c.op = "do"
    /\ Outcome(ok)
    /\ doc' = IF ok THEN Merge(doc, OnOffUpdates({c.key}, c.newVal)) ELSE doc
    /\ resp' = IF ok THEN Response("do", 200, "") ELSE Response("do", 500, "store")
    /\ pending' = pending \ {c}
    /\ lastWatch' = NoWatch
    /\ DocFrame

\* A reset that merges the device fields and leaves the timer record.
ResetByUpdate(p, ok) ==
    UpdateDoc(p, "reset",
              [led1 |-> FALSE, led2 |-> FALSE, led3 |-> FALSE, tv |-> FALSE,
               mode |-> "normal", kill |-> FALSE], ok)

\* POST /api/reset: set of the whole document.
Reset(p, ok) ==
    /\ Outcome(ok)
    /\ IF ok
       THEN /\ CanNotify
            /\ doc' = defaultState
            /\ Notify(NoTimer)
            /\ resp' = Response("reset", 200, "")
       ELSE /\ resp' = Response("reset", 500, "store")
            /\ UNCHANGED <<doc, inbox>>
    /\ lastWatch' = NoWatch
    /\ UNCHANGED <<now, activeTimers, timeouts, subs, accepted, execs, ops,
                   restarts, redelivered, probe, pending, esp, fw, stream>>

(***************************************************************************)
(* One watcher-driven process with every route that writes the document,   *)
(* and one timer, which is persisted and armed but does not come due.      *)
(***************************************************************************)
DoDevices == {"led1", "Bedroom", "tv", "garage"}

DoActions == {"on", "off", "toggle", "ON", "blink"}

KillRoutes == Kill("p1", TRUE) \/ Emergency("p1", TRUE)

OnOffRoutes ==
    \/ AllOn("p1", TRUE)
    \/ AllOff("p1", TRUE)
    \/ DoAllOn("p1", TRUE)
    \/ DoAllOff("p1", TRUE)
    \/ \E ids \in {{"led1"}, {"led2", "tv"}}, on \in BOOLEAN :
            GoogleExecute("p1", ids, on, TRUE)

ModeRoute == \E mode \in Modes : SetMode("p1", mode, TRUE)

ToggleRoute ==
    \/ \E led \in {"led1", "tv", "garage"} : Toggle("p1", led)
    \/ \E c \in pending : ToggleWrite(c, TRUE)

DoRoute ==
    \/ \E device \in DoDevices, action \in DoActions :
            DoDevice("p1", device, action, TRUE)
    \/ \E c \in pending : DoDeviceWrite(c, TRUE)

ResetRoute == Reset("p1", TRUE)

TimerOn ==
    /\ ops = 0
    /\ StartTimer("p1", Body(Arr(<<Str("led2")>>), Num(1), Str("on")), TRUE, 0, 0)

NextDoc ==
    \/ KillRoutes /\ Within'
    \/ OnOffRoutes /\ Within'
    \/ ModeRoute /\ Within'
    \/ ToggleRoute /\ Within'
    \/ DoRoute /\ Within'
    \/ ResetRoute /\ Within'
    \/ TimerOn /\ Within'
    \/ Deliver /\ Within'

SpecDoc == InitOne /\ [][NextDoc]_vars

\* C14: activating the kill switch (POST /api/kill, GET /do/emergency) sets
\* kill to true and leaves the stored led1, led2, led3 and tv as they were.
C14_KillNonDestructive ==
    [][KillRoutes =>
        /\ doc'.kill = TRUE
        /\ \A d \in KnownDevices : doc'[d] = doc[d]]_vars

\* C15: every operation that sets a device output to true sets kill to false
\* in the same store update: no step turns a device on and leaves the
\* document with kill true.
C15_OnClearsKill ==
    [][\A d \in KnownDevices : (~doc[d] /\ doc'[d]) => ~doc'.kill]_vars

(***************************************************************************)
(* Presence of the hardware peer (src/test-firebase.js 125-144, 337-358).  *)
(* lastSeen is an ISO string with millisecond precision, read back with    *)
(* getTime(): the model keeps the milliseconds.                            *)
(***************************************************************************)
EspFrame ==
    UNCHANGED <<doc, inbox, activeTimers, timeouts, subs, accepted, execs, ops,
                failures, restarts, redelivered, probe, pending, fw, stream>>

\* What GET /api/esp/status answers.
EspResponse(status) ==
    [op |-> "esp-status", status |-> 200, error |-> "",
     online |-> status.online, seen |-> status.seen, lastSeen |-> status.lastSeen]

\* A status query that reports every peer once seen as online.
FreshAlways(elapsed) == TRUE

\* elapsed < ESP_TIMEOUT_MS
Fresh(elapsed) == elapsed < ESP_TIMEOUT_MS

\* POST /api/esp/heartbeat.
Heartbeat(p) ==
    /\ esp' = [esp EXCEPT ![p] = [online |-> TRUE, seen |-> TRUE, lastSeen |-> now]]
    /\ resp' = Response("heartbeat", 200, "")
    /\ lastWatch' = NoWatch
    /\ UNCHANGED now
    /\ EspFrame

\* GET /api/esp/status: recheck of the freshness, then the answer.
EspStatus(p) ==
    LET status == IF esp[p].seen
                  THEN [esp[p] EXCEPT !.online = Fresh(now - esp[p].lastSeen)]
                  ELSE esp[p]
    IN  /\ esp' = [esp EXCEPT ![p] = status]
        /\ resp' = EspResponse(status)
        /\ lastWatch' = NoWatch
        /\ UNCHANGED now
        /\ EspFrame

\* The setInterval callback; the model lets it run at any time.
PresenceCheck(p) ==
    /\ esp' = [esp EXCEPT ![p] =
            IF esp[p].seen /\ now - esp[p].lastSeen > ESP_TIMEOUT_MS
            THEN [esp[p] EXCEPT !.online = FALSE]
            ELSE esp[p]]
    /\ lastWatch' = NoWatch
    /\ UNCHANGED <<now, resp>>
    /\ EspFrame

MaxClock == 60004

ClockSteps == {15000, 15001}

\* The clock of the presence tracker: it never goes back.
Advance ==
    \E d \in ClockSteps :
        /\ now + d <= MaxClock
        /\ now' = now + d
        /\ lastWatch' = NoWatch
        /\ UNCHANGED <<esp, resp>>
        /\ EspFrame

HeartbeatAny == Heartbeat("p1")

StatusAny == EspStatus("p1")

CheckAny == PresenceCheck("p1")

NextPresence ==
    \/ HeartbeatAny
    \/ StatusAny
    \/ CheckAny
    \/ Advance

SpecPresence == InitOne /\ [][NextPresence]_vars

Absent == [absent |-> TRUE]

\* const snap = await db.ref("smartHomeState").once("value")
InitRead(p) ==
    /\ \A c \in pending : ~(c.op = "init" /\ c.p = p)
    /\ pending' = pending \cup {[op |-> "init", p |-> p, exists |-> doc # Absent]}
    /\ lastWatch' = NoWatch
    /\ UNCHANGED <<doc, failures, resp>>
    /\ DocFrame

\* if (!snap.exists()) await db.ref("smartHomeState").set(defaultState)
InitWrite(c, ok) ==
    /\ c \in pending
    /\ c.op = "init"
    /\ IF c.exists
       THEN /\ resp' = Response("init", 200, "existing")
            /\ UNCHANGED <<doc, inbox, failures>>
       ELSE /\ Outcome(ok)
            /\ IF ok
               THEN /\ CanNotify
                    /\ doc' = defaultState
                    /\ Notify(NoTimer)
                    /\ resp' = Response("init", 200, "initialized")
               ELSE /\ resp' = Response("init", 500, "store")
                    /\ UNCHANGED <<doc, inbox>>
    /\ pending' = pending \ {c}
    /\ lastWatch' = NoWatch
    /\ UNCHANGED <<now, activeTimers, timeouts, subs, accepted, execs, ops,
                   restarts, redelivered, probe, esp, fw, stream>>

\* The store before any process has started: empty, or left by an earlier run.
InitBoot ==
    /\ now = 0
    /\ doc \in {Absent} \cup InitDocs
    /\ subs = {}
    /\ inbox = [p \in Procs |-> <<>>]
    /\ activeTimers = [p \in Procs |-> {}]
    /\ timeouts = [p \in Procs |-> {}]
    /\ accepted = <<>>
    /\ execs = EmptyBag
    /\ ops = 0
    /\ failures = 0
    /\ restarts = 0
    /\ redelivered = 0
    /\ resp = Response("none", 0, "")
    /\ lastWatch = NoWatch
    /\ pending = {}
    /\ esp = [p \in Procs |-> esp32Status]
    /\ fw = FwBoot
    /\ stream = NoStream
    /\ probe = NoProbe

BootRead == \E p \in Watchers : InitRead(p)

BootWrite == \E c \in pending : InitWrite(c, TRUE)

\* Requests a started process serves once the document is there.
PeerWrites ==
    /\ doc # Absent
    /\ \E p \in Watchers :
        \/ AllOn(p, TRUE)
        \/ Kill(p, TRUE)
        \/ \E mode \in {"wave", "pulse"} : SetMode(p, mode, TRUE)
        \/ GoogleExecute(p, {"tv"}, TRUE, TRUE)

NextBoot ==
    \/ BootRead
    \/ BootWrite
    \/ PeerWrites

SpecBoot == InitBoot /\ [][NextBoot]_vars

\* C18: initializeDatabase writes defaultState only when the document is
\* absent: its write step leaves a document that exists unchanged, also when
\* a peer wrote it between the existence check and the default write.
C18_InitKeepsExisting ==
    [][(BootWrite /\ doc # Absent) => doc' = doc]_vars

\* C19: when POST /api/reset completes, the document equals defaultState
\* whatever it held before (devices on, kill set, another mode, a timer).
C19_ResetRestoresDefault ==
    [][ResetRoute =>
        /\ doc' = defaultState
        /\ doc' = [led1 |-> FALSE, led2 |-> FALSE, led3 |-> FALSE, tv |-> FALSE,
                   mode |-> "normal", kill |-> FALSE, timer |-> NoTimer]
        /\ resp' = Response("reset", 200, "")]_vars

C19_Witness ==
    /\ resp = Response("reset", 200, "")
    /\ doc = defaultState
    /\ Len(accepted) = 1
    /\ timeouts["p1"] # {}

\* C20: any two accepted scheduling requests carry distinct timer ids, also
\* when they arrive in the same millisecond, so the watcher never skips a
\* superseding record as the one it has already armed.
C20_DistinctIds ==
    /\ \A i, j \in 1..Len(accepted) :
            i # j => accepted[i].id # accepted[j].id
    /\ \A p \in subs :
            (lastWatch.p = p /\ lastWatch = Skipped(p, lastWatch.timer)
                /\ lastWatch # NoWatch)
            => \A e \in activeTimers[p] :
                    e.id = lastWatch.timer.id
                    => \E t \in timeouts[p] : t.h = e.h /\ t.timer = lastWatch.timer

\* C21: every Timer Record a scheduling request writes has
\* endsAt - startedAt = durationSeconds * 1000 exactly, however the clock
\* moves while the request is handled.
C21_ExactDuration ==
    \A i \in 1..Len(accepted) :
        accepted[i].endsAt - accepted[i].startedAt
            = ToNumber(accepted[i].duration).n * 1000

(***************************************************************************)
(* One watcher-driven process on a store whose writes may fail             *)
(* (StoreUnavailable): the scheduling routes, the watcher, the countdown   *)
(* callbacks and the clock.                                                *)
(***************************************************************************)
\* The countdowns of p that are scheduled and not yet run.
PendingCountdowns(p) == {t \in timeouts[p] : t.st = "pending"}

ScheduleMayFail ==
    \E ok \in BOOLEAN :
        \/ \E body \in GoodBodies : StartTimer("p1", body, ok, 0, 0)
        \/ \E params \in DoTimerParams : DoTimer("p1", params, ok, 0, 0)

DeliverMayFail == \E ok \in BOOLEAN : Watcher("p1", ok)

CountdownMayFail ==
    \E t \in timeouts["p1"], ok \in BOOLEAN : Expire("p1", t, ok)

NextFail ==
    \/ Open /\ ScheduleMayFail /\ Within'
    \/ DeliverMayFail /\ Within'
    \/ CountdownMayFail /\ Within'
    \/ Finish /\ Within'
    \/ Tick

SpecFail == InitOne /\ [][NextFail]_vars

\* C22: when the store write of a scheduling request fails, nothing is
\* persisted, and every countdown the process had armed before the request
\* is still armed after it, to fire at its deadline.
C22_FailedScheduleKeepsCountdown ==
    [][(ops' # ops /\ resp'.op \in {"start", "do-timer"} /\ resp'.status = 500)
        => /\ doc' = doc
           /\ PendingCountdowns("p1") \subseteq PendingCountdowns("p1")'
           /\ activeTimers'["p1"] = activeTimers["p1"]]_vars

\* C23: a merge-write that fails, at the expiry of a countdown or on an
\* expired snapshot, is absorbed: the step leaves no entry for the id of its
\* record in the countdown table of the process, which is Idle again.
C23_FailedFiringReturnsIdle ==
    [][\A e \in BagToSet(execs') :
        (CopiesIn(e, execs') > CopiesIn(e, execs) /\ ~e.ok)
        => \A a \in activeTimers'[e.p] : a.id # e.timer.id]_vars

(***************************************************************************)
(* GET /api/timer/status (src/test-firebase.js 431-449) and POST           *)
(* /api/state (266-274), with the scheduling routes, the watcher, the      *)
(* countdowns and the clock of one process.                                *)
(***************************************************************************)
\* Math.ceil(a / b) for b > 0.
Ceil(a, b) == 0 - ((0 - a) \div b)

\* A status query that takes the seconds rounded down.
StatusRemainingFloor(timer) == Max(0, (timer.endsAt - now) \div 1000)

\* Math.max(0, Math.ceil((timer.endsAt - Date.now()) / 1000))
StatusRemaining(timer) == Max(0, Ceil(timer.endsAt - now, 1000))

\* What GET /api/timer/status answers: { active: false } or
\* { active: true, ...timer, remaining }.
StatusResponse(active, timer, remaining) ==
    [op |-> "timer-status", status |-> 200, error |-> "", active |-> active,
     timer |-> timer, remaining |-> remaining]

\* GET /api/timer/status up to its first await: the read of the timer.
TimerStatus(p) ==
    /\ Cardinality({c \in pending : c.p = p}) < MaxPending
    /\ pending' = pending \cup {[op |-> "status", p |-> p, timer |-> doc.timer]}
    /\ lastWatch' = NoWatch
    /\ UNCHANGED <<doc, failures, resp>>
    /\ DocFrame

\* GET /api/timer/status after the read: the remaining time at the clock of
\* this step, the set of null when none remains, and the answer.
TimerStatusAnswer(c, ok) ==
    /\ c \in pending
    /\ c.op = "status"
    /\ IF IsActive(c.timer)
       THEN IF StatusRemaining(c.timer) <= 0
            THEN /\ Outcome(ok)
                 /\ IF ok
                    THEN /\ CanNotify
                         /\ doc' = [doc EXCEPT !.timer = NoTimer]
                         /\ Notify(NoTimer)
                         /\ resp' = StatusResponse(FALSE, NoTimer, 0)
                    ELSE /\ resp' = Response("timer-status", 500, "store")
                         /\ UNCHANGED <<doc, inbox>>
            ELSE /\ resp' = StatusResponse(TRUE, c.timer, StatusRemaining(c.timer))
                 /\ UNCHANGED <<doc, inbox, failures>>
       ELSE /\ resp' = StatusResponse(FALSE, NoTimer, 0)
            /\ UNCHANGED <<doc, inbox, failures>>
    /\ pending' = pending \ {c}
    /\ lastWatch' = NoWatch
    /\ UNCHANGED <<now, activeTimers, timeouts, subs, accepted, execs, ops,
                   restarts, redelivered, probe, esp, fw, stream>>

\* POST /api/state: update of the document with the body as it is; a body
\* with a timer key writes the timer, which the store notifies.
PostState(p, updates, ok) ==
    /\ ops < MaxOps
    /\ ops' = ops + 1
    /\ Outcome(ok)
    /\ IF ok
       THEN /\ doc' = Merge(doc, updates)
            /\ IF "timer" \in DOMAIN updates
               THEN CanNotify /\ Notify(updates.timer)
               ELSE UNCHANGED inbox
            /\ resp' = Response("state", 200, "")
       ELSE /\ resp' = Response("state", 500, "store")
            /\ UNCHANGED <<doc, inbox>>
    /\ lastWatch' = NoWatch
    /\ UNCHANGED <<now, activeTimers, timeouts, subs, accepted, execs,
                   restarts, redelivered, probe, pending, esp, fw, stream>>

\* Bodies of POST /api/state.
StateBodies ==
    {[led1 |-> TRUE],
     [mode |-> "wave", kill |-> TRUE],
     [mode |-> "strobe"],
     [timer |-> NoTimer],
     [timer |-> [id |-> 7, devices |-> <<"led3">>, duration |-> Num(1),
                 action |-> "on", startedAt |-> 0, endsAt |-> 1000,
                 active |-> TRUE]]}

StatusRead == TimerStatus("p1")

StatusAnswer == \E c \in pending : TimerStatusAnswer(c, TRUE)

StateRoute == \E updates \in StateBodies : PostState("p1", updates, TRUE)

ScheduleGood ==
    \/ \E body \in GoodBodies : StartTimer("p1", body, TRUE, 0, 0)
    \/ DoTimer("p1", Params("tv", <<"2">>, "off"), TRUE, 0, 0)

\* Clock steps of the status specification: half a tick, so that a query
\* falls strictly inside a second of the remaining time.
HalfTick ==
    /\ now + TickMs \div 2 <= MaxNow
    /\ now' = now + TickMs \div 2
    /\ lastWatch' = NoWatch
    /\ UNCHANGED <<doc, inbox, activeTimers, timeouts, subs, accepted, execs,
                   ops, failures, restarts, redelivered, resp, probe, pending,
                   esp, fw, stream>>

ScheduleFirst == ops = 0 /\ ScheduleGood

NextStatus ==
    \/ ScheduleFirst /\ Within'
    \/ Open /\ Cancel /\ Within'
    \/ StatusRead /\ Within'
    \/ StatusAnswer /\ Within'
    \/ Deliver /\ Within'
    \/ Countdown /\ Within'
    \/ Finish /\ Within'
    \/ HalfTick

SpecStatus == InitOne /\ [][NextStatus]_vars

\* C24: the timer status query answers active, with remaining the seconds of
\* max(0, endsAt - now) rounded up, exactly when the record it read is active
\* and its endsAt is after the clock; otherwise (none remains, or no active
\* record) it answers that no timer is active.
C24_StatusReportsRemaining ==
    [][\A c \in pending :
        (c.op = "status" /\ TimerStatusAnswer(c, TRUE))
        => /\ resp'.active = (IsActive(c.timer) /\ c.timer.endsAt > now)
           /\ resp'.active =>
                /\ resp'.remaining * 1000 >= c.timer.endsAt - now
                /\ (resp'.remaining - 1) * 1000 < c.timer.endsAt - now
                /\ resp'.remaining >= 1
                /\ resp'.timer = c.timer
           /\ ~resp'.active => resp'.remaining = 0]_vars

C24_Witness ==
    /\ resp.op = "timer-status"
    /\ resp.active
    /\ resp.remaining = 2
    /\ resp.timer.endsAt - now = 1500
    /\ doc.timer = resp.timer

NextField ==
    \/ ScheduleFirst /\ Within'
    \/ Open /\ Cancel /\ Within'
    \/ Open /\ StateRoute /\ Within'
    \/ ResetRoute /\ Within'
    \/ StatusRead /\ Within'
    \/ StatusAnswer /\ Within'
    \/ Deliver /\ Within'
    \/ Countdown /\ Within'
    \/ Finish /\ Within'
    \/ Tick

SpecField == InitOne /\ [][NextField]_vars

\* C25: the timer field of the document changes only by a scheduling request
\* (created), a cancellation or a firing (cleared) and a reset; the generic
\* state update and the timer status query never create, alter or clear it.
C25_TimerFieldOwnership ==
    [][doc'.timer # doc.timer
        => (ScheduleFirst \/ Cancel \/ Deliver \/ Countdown \/ ResetRoute)]_vars

(***************************************************************************)
(* One watcher-driven process with up to MaxOps scheduling requests and    *)
(* MaxQueue snapshots waiting for its watcher.                             *)
(***************************************************************************)
ScheduleRace == \E body \in GoodBodies : StartTimer("p1", body, TRUE, 0, 0)

NextRace ==
    \/ ScheduleRace
    \/ Deliver
    \/ Countdown
    \/ Finish
    \/ Tick

SpecRace == InitOne /\ [][NextRace]_vars

\* C26: under every interleaving of scheduling requests, notifications and
\* expiries, a process has at most one countdown armed: its table holds at
\* most one entry and at most one of its setTimeout callbacks is scheduled.
C26_OneCountdownArmed ==
    \A p \in subs :
        /\ Cardinality(activeTimers[p]) <= 1
        /\ Cardinality(PendingCountdowns(p)) <= 1

\* C27: in the direct-arm server, scheduling requests whose handling
\* overlaps (one starts while another awaits its store write) leave at most
\* one countdown armed: one entry in the table, one callback scheduled.
C27_DirectOneCountdown ==
    \A p \in Directs :
        /\ Cardinality(activeTimers[p]) <= 1
        /\ Cardinality(PendingCountdowns(p)) <= 1

\* C28: once a heartbeat has been received, the periodic check and the status
\* query turn presence offline exactly when now - lastSeen > ESP_TIMEOUT_MS:
\* a peer that is online stays online, and is reported online, through
\* now - lastSeen = ESP_TIMEOUT_MS, and is offline after either step beyond it.
C28_SameThreshold ==
    [][(/\ StatusAny \/ CheckAny
        /\ esp["p1"].seen
        /\ esp["p1"].online)
       => /\ esp'["p1"].online = ~(now - esp["p1"].lastSeen > ESP_TIMEOUT_MS)
          /\ StatusAny => resp'.online = esp'["p1"].online]_vars

\* C29: in the watcher-driven server a firing sets the outputs of its
\* devices, clears kill when the action is on, and sets timer to null in one
\* store update: the step that applies the outputs is the step that clears
\* the active record, so no reader sees the one without the other.
C29_AtomicFiring ==
    /\ [][\A e \in BagToSet(execs') :
            (CopiesIn(e, execs') > CopiesIn(e, execs) /\ e.ok)
            => /\ doc'.timer = NoTimer
               /\ \A d \in Range(e.timer.devices) :
                        doc'[d] = (e.timer.action = "on")
               /\ e.timer.action = "on" => ~doc'.kill]_vars
    /\ [][(\E k \in KnownDevices \cup {"kill"} : doc'[k] # doc[k])
            => /\ IsActive(doc.timer)
               /\ doc'.timer = NoTimer
               /\ execs' # execs]_vars
    /\ [][(IsActive(doc.timer) /\ doc'.timer = NoTimer)
            => /\ \A d \in Range(doc.timer.devices) :
                        doc'[d] = (doc.timer.action = "on")
               /\ doc.timer.action = "on" => ~doc'.kill]_vars

C29_Witness ==
    /\ accepted # <<>>
    /\ accepted[1].devices = <<"led2">>
    /\ accepted[1].action = "on"
    /\ doc.timer = NoTimer
    /\ doc.led1
    /\ doc.led2
    /\ ~doc.kill
    /\ \E e \in BagToSet(execs) : e.ok /\ e.timer = accepted[1]

\* C30: a process that handles a snapshot whose timer is null or not active
\* cancels every countdown it has armed and writes nothing: after the step it
\* has no countdown scheduled, its table is empty, and the document and the
\* history of merge-writes are as before.
C30_InactiveSnapshotCancels ==
    [][\A p \in subs :
        (/\ inbox[p] # <<>>
         /\ ~IsActive(Head(inbox[p]))
         /\ Watcher(p, TRUE))
        => /\ PendingCountdowns(p)' = {}
           /\ activeTimers'[p] = {}
           /\ doc' = doc
           /\ execs' = execs]_vars

(***************************************************************************)
(* One process with the routes that write the mode or leave it alone: set  *)
(* mode, kill, reset, the generic state update, toggles.                   *)
(***************************************************************************)
NextMode ==
    \/ ModeRoute
    \/ KillRoutes
    \/ ResetRoute
    \/ ToggleRoute
    \/ Open /\ StateRoute /\ Within'
    \/ Deliver

SpecMode == InitOne /\ [][NextMode]_vars

\* C31: after any sequence of set mode, kill, reset, generic state update and
\* toggle requests, the mode of the document is one of normal, wave, pulse,
\* disco.
C31_ModeEnumeration == doc.mode \in {"normal", "wave", "pulse", "disco"}


(***************************************************************************)
(* The firmware's stream on /smartHomeState (src/unnamed/part_000): once   *)
(* open, the store reports to it the document as it is and then every      *)
(* write under the path, in the order the store applied them, as an event  *)
(* with the path written, relative to the stream's, and the data written.  *)
(***************************************************************************)
StreamFrame ==
    UNCHANGED <<now, inbox, activeTimers, timeouts, subs, accepted, execs, ops,
                failures, restarts, redelivered, resp, lastWatch, probe,
                pending, esp>>

\* Events the stream holds at most.
MaxStream == 2

\* The event of a write, queued when the stream is open and has room.
Streamed(path, data) ==
    /\ Len(stream.q) < MaxStream
    /\ stream' = IF stream.on
                 THEN [stream EXCEPT !.q = Append(@, [path |-> path, data |-> data])]
                 ELSE stream

\* startStream(): beginStream fails, or the stream opens and its first event
\* is the whole document at the path "/".
startStream(ok) ==
    /\ ~stream.on
    /\ stream' = IF ok
                 THEN [on |-> TRUE, q |-> <<[path |-> "/", data |-> doc]>>]
                 ELSE stream
    /\ UNCHANGED <<doc, fw>>
    /\ StreamFrame

\* The objects that replace the root: defaultState, and productionState of
\* src/setup-production.js.
productionState ==
    [led1 |-> FALSE, led2 |-> FALSE, led3 |-> FALSE, mode |-> "normal",
     kill |-> FALSE]

\* ref("smartHomeState").set(object).
StoreSet(object) ==
    /\ doc' = object
    /\ Streamed("/", object)
    /\ UNCHANGED fw
    /\ StreamFrame

\* The updates objects of the routes and of a firing.
StreamUpdates ==
    {[led1 |-> FALSE, led2 |-> FALSE, led3 |-> FALSE, kill |-> TRUE,
      mode |-> "normal"],
     [led1 |-> TRUE, led2 |-> TRUE, led3 |-> TRUE, kill |-> FALSE],
     [led1 |-> FALSE, led2 |-> FALSE, led3 |-> FALSE, tv |-> FALSE,
      kill |-> TRUE],
     [mode |-> "wave", kill |-> TRUE],
     [mode |-> "strobe"],
     [led2 |-> TRUE, kill |-> FALSE, timer |-> NoTimer]}

\* ref("smartHomeState").update(updates).
StoreUpdate(updates) ==
    /\ doc' = Merge(doc, updates)
    /\ Streamed("/", updates)
    /\ UNCHANGED fw
    /\ StreamFrame

\* The path of the event of a write at one child.
FieldPath ==
    [led1 |-> "/led1", led2 |-> "/led2", led3 |-> "/led3", tv |-> "/tv",
     kill |-> "/kill", mode |-> "/mode", timer |-> "/timer"]

\* The single-field writes: a toggled output, a mode, the kill flag, the
\* timer cleared.
StreamFields ==
    ({"led1", "led2", "kill"} \X BOOLEAN)
        \cup ({"mode"} \X {"normal", "wave", "pulse"})
        \cup {<<"timer", NoTimer>>}

\* ref("smartHomeState/" + key).set(value).
StoreSetField(key, value) ==
    /\ doc' = Merge(doc, [k \in {key} |-> value])
    /\ Streamed(FieldPath[key], value)
    /\ UNCHANGED fw
    /\ StreamFrame

\* The stream task hands the oldest event to streamCallback.
StreamDeliver ==
    /\ stream.on
    /\ stream.q # <<>>
    /\ LET data == Head(stream.q)
       IN  IF data.path = "/"
           THEN streamRoot(data.data)
           ELSE streamField(data.path, data.data)
    /\ stream' = [stream EXCEPT !.q = Tail(@)]

NextStream ==
    \/ \E ok \in BOOLEAN : startStream(ok)
    \/ \E object \in {defaultState, productionState} : StoreSet(object)
    \/ \E updates \in StreamUpdates : StoreUpdate(updates)
    \/ \E f \in StreamFields : StoreSetField(f[1], f[2])
    \/ StreamDeliver

SpecStream == InitFirmware /\ [][NextStream]_vars

\* The firmware has handled every event of its open stream.
StreamQuiet == stream.on /\ stream.q = <<>>

\* C32: once the firmware's stream callback has handled, in the order of
\* the store, the event of every write under smartHomeState (the root
\* replaced, several keys updated, one field set), its led1, led2, led3,
\* killSwitch and mode are the values the document holds.
C32_FirmwareMirrorsDocument ==
    StreamQuiet =>
        /\ fw.led1 = doc.led1
        /\ fw.led2 = doc.led2
        /\ fw.led3 = doc.led3
        /\ fw.killSwitch = doc.kill
        /\ fw.mode = doc.mode

\* The firmware has just handled an update of several keys that left other
\* fields of its copy, set by earlier events, as they were.
C32_Witness ==
    /\ StreamQuiet
    /\ fw.mode = "wave"
    /\ fw.killSwitch
    /\ fw.led1
    /\ "timer" \notin DOMAIN doc


(***************************************************************************)
(* Two subscribed processes, one timer, and the kill routes of a client.   *)
(***************************************************************************)
NextTwice ==
    \/ ScheduleFirst /\ Within'
    \/ Deliver /\ Within'
    \/ Countdown /\ Within'
    \/ Finish /\ Within'
    \/ KillRoutes
    \/ Tick

SpecTwice == Init /\ [][NextTwice]_vars

\* C33: when two subscribed processes both execute the same timer id, the
\* second execution is a no-op on the document, whatever writes of other
\* clients fall between the two: the merge-write of a record that has been
\* written before leaves the document as it is.
C33_SecondExecutionNoOp ==
    [][\A i \in DOMAIN accepted :
            (/\ WritesFor(accepted[i]) >= 1
             /\ WritesFor(accepted[i])' > WritesFor(accepted[i]))
            => doc' = doc]_vars


(***************************************************************************)
(* Firings of timers scheduled by the routes and of records written        *)
(* through POST /api/state.                                                *)
(***************************************************************************)
FrameBodies ==
    StateBodies
        \cup {[timer |-> [id |-> 8, devices |-> <<"kill">>, duration |-> Num(1),
                          action |-> "off", startedAt |-> 0, endsAt |-> 1000,
                          active |-> TRUE]]}

FrameRoute == \E updates \in FrameBodies : PostState("p1", updates, TRUE)

NextFrame ==
    \/ ScheduleFirst /\ Within'
    \/ Open /\ FrameRoute /\ Within'
    \/ KillRoutes
    \/ Deliver /\ Within'
    \/ Countdown /\ Within'
    \/ Finish /\ Within'
    \/ Tick

SpecFrame == InitOne /\ [][NextFrame]_vars

\* The merge-writes issued in the step.
Fired == {e \in BagToSet(execs') : CopiesIn(e, execs') > CopiesIn(e, execs)}

\* C34: a timer firing leaves unchanged the mode, every device output not
\* in timer.devices and, when the action is off, the kill flag.
C34_FiringFrame ==
    [][\A e \in Fired :
            /\ doc'.mode = doc.mode
            /\ \A d \in KnownDevices \ Range(e.timer.devices) : doc'[d] = doc[d]
            /\ e.timer.action = "off" => doc'.kill = doc.kill]_vars


(***************************************************************************)
(* One timer and status queries at any time; delivery, the countdown, the  *)
(* callback's end, the query's answer and the clock are fair.              *)
(***************************************************************************)
NextQuery ==
    \/ ScheduleFirst /\ Within'
    \/ StatusRead /\ Within'
    \/ StatusAnswer /\ Within'
    \/ Deliver /\ Within'
    \/ Countdown /\ Within'
    \/ Finish /\ Within'
    \/ Tick

SpecQuery ==
    /\ InitOne
    /\ [][NextQuery]_vars
    /\ WF_vars(Tick)
    /\ WF_vars(StatusAnswer /\ Within')
    /\ WF_vars(Deliver /\ Within')
    /\ WF_vars(Countdown /\ Within')
    /\ WF_vars(Finish /\ Within')

\* C35: every persisted active Timer Record that is not cancelled,
\* superseded or reset eventually has its action applied, under fair
\* delivery and expiry, even when timer status queries are issued at any
\* time, at or after endsAt and before the countdown callback included.
C35_QueriedTimerStillFires ==
    (accepted # <<>>) ~> (accepted # <<>> /\ WritesFor(accepted[1]) >= 1)


(***************************************************************************)
(* Toggles of two processes and no other writer: each toggle is a read and *)
(* then a write, and the steps of concurrent toggles interleave.           *)
(***************************************************************************)
ToggleRead ==
    \E p \in Watchers :
        \/ \E led \in {"led1", "tv"} : Toggle(p, led)
        \/ DoDevice(p, "Bedroom", "toggle", TRUE)

ToggleDone ==
    \E c \in pending : ToggleWrite(c, TRUE) \/ DoDeviceWrite(c, TRUE)

NextToggle ==
    \/ ToggleRead
    \/ ToggleDone

SpecToggle == Init /\ [][NextToggle]_vars

\* C36: each completed toggle inverts the stored value, so that after n
\* completed toggles of one device, with no other writer, the value is the
\* initial one for n even and its negation for n odd, however the reads and
\* writes of concurrent toggles interleave: the write that completes a
\* toggle leaves the device at the negation of the value it had before it.
C36_ToggleInverts ==
    [][\A c \in pending \ pending' : doc'[c.key] = ~doc[c.key]]_vars


\* The process p has nothing in flight: every snapshot handled, no handler
\* suspended at a write, no callback running or due.
Quiescent(p) ==
    /\ inbox[p] = <<>>
    /\ \A c \in pending : c.p # p
    /\ \A t \in timeouts[p] : t.st = "pending" /\ now < t.due

\* The process p has a countdown armed for the id.
ArmedFor(p, id) == \E t \in PendingCountdowns(p) : t.timer.id = id

\* C37: whenever a process is quiescent (no store write of its own in
\* flight, every notification delivered, no countdown due), it has a
\* countdown armed for an id exactly when the persisted timer is active with
\* that id and not yet expired; this holds as well after a scheduling or
\* cancellation request whose store write failed.
C37_CountdownMatchesRecord ==
    Quiescent("p1") =>
        \A id \in {t.timer.id : t \in timeouts["p1"]}
                    \cup (IF IsActive(doc.timer) THEN {doc.timer.id} ELSE {}) :
            ArmedFor("p1", id)
                <=> (IsActive(doc.timer) /\ doc.timer.id = id
                        /\ now < doc.timer.endsAt)


\* C38: a kill (POST /api/kill or GET /do/emergency) leaves the persisted
\* Timer Record and every armed countdown of every process unchanged, and
\* notifies no watcher.
C38_KillKeepsTimer ==
    [][KillRoutes =>
            /\ doc'.timer = doc.timer
            /\ activeTimers' = activeTimers
            /\ timeouts' = timeouts
            /\ inbox' = inbox]_vars

\* A kill has been answered while the record is active and both processes
\* have its countdown armed.
C38_Witness ==
    /\ resp.op \in {"kill", "emergency"}
    /\ resp.status = 200
    /\ doc.kill
    /\ IsActive(doc.timer)
    /\ \A p \in Watchers : PendingCountdowns(p) # {} /\ activeTimers[p] # {}


(***************************************************************************)
(* One watcher-driven process: scheduling requests, resets, delivery, the  *)
(* countdowns and the clock.                                               *)
(***************************************************************************)
NextReset ==
    \/ ScheduleRace
    \/ ResetRoute
    \/ Deliver
    \/ Countdown
    \/ Finish
    \/ Tick

SpecReset == InitOne /\ [][NextReset]_vars

\* The last request answered is a reset, its write is in the document's
\* history and every snapshot, its own included, has been handled.
ResetSettled ==
    /\ resp.op = "reset"
    /\ resp.status = 200
    /\ \A p \in subs : inbox[p] = <<>>

\* C39: once a reset has been written and its snapshot delivered, every
\* countdown armed before the reset is cancelled and no firing of a timer
\* scheduled before it modifies the document afterwards: without further
\* requests the document stays as it is.
C39_ResetIsFinal ==
    /\ [](ResetSettled => \A p \in subs : PendingCountdowns(p) = {})
    /\ [][(ResetSettled /\ (Deliver \/ Countdown \/ Finish \/ Tick))
            => doc' = doc]_vars

====
